---- MODULE Spec2Model ----
(***************************************************************************)
(* Shadow-DOM aware query selectors (querySelectorShadow.js and its        *)
(* implicit-override variant).                                             *)
(*                                                                         *)
(* The DOM is a composed tree: node 0 is the document, nodes 1..NumNodes   *)
(* are elements and shadow roots.  Nodes are numbered in composed          *)
(* pre-order (a host, then its shadow tree, then its light children), so   *)
(* document order inside one tree is the order of the node numbers.        *)
(* A selector is a JavaScript string, written as the sequence of the       *)
(* substrings (tokens) it is the concatenation of.                         *)
(***************************************************************************)
EXTENDS Integers, Sequences, FiniteSets, TLC

VARIABLES tree, mode, pc, call, result, loop, dequeued

vars == <<tree, mode, pc, call, result, loop, dequeued>>

\* ------------------------------------------------------------------ bounds
NumNodes == 4
MaxSelLen == 2
StackLimit == 6

\* ------------------------------------------------------------------- DOM
DOCUMENT == 0
NULL == -1

Tags == {"p", "div"}
Nodes == 0..NumNodes

\* The nodes that may follow node n-1 as parent of node n in composed
\* pre-order: node n-1 and its composed ancestors below the document.
RECURSIVE RightPath(_, _)
RightPath(t, n) ==
    IF n = DOCUMENT THEN {} ELSE {n} \cup RightPath(t, t[n].parent)

ElementRecs(t) ==
    LET n == Len(t)
    IN  [kind : {"element"}, parent : RightPath(t, n), tag : Tags]

ShadowRecs(t) ==
    LET n == Len(t)
    IN  IF t[n].kind = "element"
        THEN {[kind |-> "shadow", parent |-> n, tag |-> ""]}
        ELSE {}

RECURSIVE TreesOf(_)
TreesOf(n) ==
    IF n = 1
    THEN {<<[kind |-> "element", parent |-> DOCUMENT, tag |-> g]>> : g \in Tags}
    ELSE UNION {{Append(t, r) : r \in ElementRecs(t) \cup ShadowRecs(t)} :
                t \in TreesOf(n - 1)}

Trees == TreesOf(NumNodes)

kind(n) == IF n = DOCUMENT THEN "document" ELSE tree[n].kind
parentNode(n) == IF n = DOCUMENT THEN NULL ELSE tree[n].parent
tagName(n) == tree[n].tag

isElement(n) == n # NULL /\ kind(n) = "element"
isShadowRoot(n) == n # NULL /\ kind(n) = "shadow"

\* node.parentElement: the parent of an element when that parent is an
\* element, else null.  A document and a shadow root have no parent element
\* (a shadow root reaches its host by .host only).
parentElement(n) ==
    IF isElement(n) /\ isElement(parentNode(n)) THEN parentNode(n) ELSE NULL

\* node.shadowRoot: the shadow root an element hosts; undefined (falsy) on
\* documents and shadow roots.
shadowRoot(n) ==
    IF isElement(n) /\ n < NumNodes /\ isShadowRoot(n + 1) /\ parentNode(n + 1) = n
    THEN n + 1
    ELSE NULL

\* shadowRoot.host
host(s) == parentNode(s)

\* An increasing sequence of the members of a set of nodes.
RECURSIVE SortedSeq(_)
SortedSeq(S) ==
    IF S = {} THEN <<>>
    ELSE LET m == CHOOSE x \in S : \A y \in S : x <= y
         IN  <<m>> \o SortedSeq(S \ {m})

\* node.children: the element children, in document order.
children(n) ==
    SortedSeq({c \in 1..NumNodes : isElement(c) /\ parentNode(c) = n})

\* Light-DOM descendants: elements below n in n's own tree.
RECURSIVE lightAncestor(_, _)
lightAncestor(a, n) ==
    /\ n # DOCUMENT
    /\ isElement(n)
    /\ \/ parentNode(n) = a
       \/ lightAncestor(a, parentNode(n))

lightDescendants(n) == {d \in 1..NumNodes : lightAncestor(n, d)}

\* Composed-tree descendants: below n through children and shadow roots.
RECURSIVE composedAncestor(_, _)
composedAncestor(a, n) ==
    /\ n # DOCUMENT
    /\ \/ parentNode(n) = a
       \/ composedAncestor(a, parentNode(n))

composedDescendants(n) == {d \in 1..NumNodes : composedAncestor(n, d)}

RECURSIVE composedDepth(_)
composedDepth(n) == IF n = DOCUMENT THEN 0 ELSE 1 + composedDepth(parentNode(n))

\* node.getRootNode(): the document or shadow root on top of n's tree.
RECURSIVE getRootNode(_)
getRootNode(n) ==
    IF n = DOCUMENT \/ isShadowRoot(n) THEN n ELSE getRootNode(parentNode(n))

\* ------------------------------------------------------------- selectors
MarkerTokens == {":shadow", ">>>"}
Alphabet == {":shadow", ">>>", "p"}

\* The selectors of the usage notes (":shadow .some-class"), selectors with
\* white space, and every string of at most MaxSelLen tokens of the alphabet.
UsageSelectors ==
    {<<":shadow", " ", "p">>, <<"p", " ", ">>>", " ", "p">>,
     <<"p", ":shadow", " ", "p">>, <<":shadow", " ">>, <<"p", " ", "p">>,
     <<"div">>, <<" ">>}

Selectors == UsageSelectors \cup UNION {[1..k -> Alphabet] : k \in 1..MaxSelLen}

UNIVERSAL == <<"*">>

\* String.prototype.includes for one token of the alphabet.
includes(s, tok) == \E i \in 1..Len(s) : s[i] = tok

RECURSIVE skipSpaces(_)
skipSpaces(s) ==
    IF s # <<>> /\ Head(s) = " " THEN skipSpaces(Tail(s)) ELSE s

\* s.replace(/<tok>\s*/g, ''): every occurrence of tok, with the white space
\* that follows it, is removed, scanning left to right.
RECURSIVE replaceAll(_, _)
replaceAll(s, tok) ==
    IF s = <<>> THEN <<>>
    ELSE IF Head(s) = tok THEN replaceAll(skipSpaces(Tail(s)), tok)
    ELSE <<Head(s)>> \o replaceAll(Tail(s), tok)

RECURSIVE trimEnd(_)
trimEnd(s) ==
    IF s # <<>> /\ s[Len(s)] = " " THEN trimEnd(SubSeq(s, 1, Len(s) - 1)) ELSE s

\* String.prototype.trim
trim(s) == trimEnd(skipSpaces(s))

\* Mutant: the helper forgetting the '>>>' marker.
needsShadowSearchColonOnly(selector) == includes(selector, ":shadow")

needsShadowSearch(selector) ==
    includes(selector, ":shadow") \/ includes(selector, ">>>")

cleanSelector(selector) ==
    trim(replaceAll(replaceAll(selector, ":shadow"), ">>>"))

\* The host's selector parser, on the selectors this alphabet can spell:
\* compound selectors separated by descendant combinators (white space).
\* A compound is a type selector (a run of name tokens) or "*".
RECURSIVE firstCompound(_)
firstCompound(s) ==
    IF s = <<>> \/ Head(s) = " " THEN <<>>
    ELSE <<Head(s)>> \o firstCompound(Tail(s))

RECURSIVE splitCompounds(_)
splitCompounds(s) ==
    LET t == skipSpaces(s)
        c == firstCompound(t)
    IN  IF t = <<>> THEN <<>>
        ELSE <<c>> \o splitCompounds(SubSeq(t, Len(c) + 1, Len(t)))

validCompound(c) ==
    /\ \A i \in 1..Len(c) : c[i] \notin MarkerTokens
    /\ (includes(c, "*") => c = UNIVERSAL)

validSelector(selector) ==
    LET cs == splitCompounds(selector)
    IN  cs # <<>> /\ \A i \in 1..Len(cs) : validCompound(cs[i])

compoundMatches(e, c) == c = UNIVERSAL \/ c = <<tagName(e)>>

\* Element e matches compounds cs[1..k]: e matches cs[k] and some chain of
\* its ancestor elements (inside its own tree) matches cs[1..k-1].
RECURSIVE matchesUpTo(_, _, _)
matchesUpTo(e, cs, k) ==
    /\ compoundMatches(e, cs[k])
    /\ \/ k = 1
       \/ \E a \in 1..NumNodes :
            isElement(a) /\ lightAncestor(a, e) /\ matchesUpTo(a, cs, k - 1)

\* element.matches(selector), for a selector the parser accepts.
matches(e, selector) ==
    LET cs == splitCompounds(selector) IN matchesUpTo(e, cs, Len(cs))

\* ------------------------------------------------------ results of calls
Value(n, l, v) == [err |-> "", node |-> n, list |-> l, visited |-> v]
Throw(e) == [err |-> e, node |-> NULL, list |-> <<>>, visited |-> {}]

\* The native (saved original) methods: light-DOM descendants only.
nativeQuerySelectorAll(root, selector) ==
    IF ~validSelector(selector) THEN Throw("SyntaxError")
    ELSE Value(NULL,
               SortedSeq({d \in lightDescendants(root) : matches(d, selector)}),
               {})

nativeQuerySelector(root, selector) ==
    LET all == nativeQuerySelectorAll(root, selector)
    IN  IF all.err # "" THEN all
        ELSE IF all.list = <<>> THEN Value(NULL, <<>>, {})
        ELSE Value(Head(all.list), <<>>, {})

\* ------------------------------------------------- shadow-aware traversal
\* Mutant: the loop body without the `current !== root` test.
optimizedIterationTestsRoot(selector, root, st) ==
    LET current == Head(st.pending)
        test == isElement(current)
        sr == shadowRoot(current)
        withShadow == IF sr # NULL THEN <<sr>> ELSE <<>>
    IN  IF test /\ ~validSelector(selector)
        THEN [st EXCEPT !.pending = Tail(st.pending), !.err = "SyntaxError"]
        ELSE [pending |-> Tail(st.pending) \o withShadow \o children(current),
              results |-> IF test /\ matches(current, selector)
                          THEN Append(st.results, current)
                          ELSE st.results,
              visited |-> st.visited \cup {x \in {sr} : x # NULL},
              err |-> ""]

\* Mutant: the loop body putting new nodes at the front of the frontier
\* (unshift instead of push), which walks depth-first.
optimizedIterationUnshift(selector, root, st) ==
    LET current == Head(st.pending)
        test == current # root /\ isElement(current)
        sr == shadowRoot(current)
        withShadow == IF sr # NULL THEN <<sr>> ELSE <<>>
    IN  IF test /\ ~validSelector(selector)
        THEN [st EXCEPT !.pending = Tail(st.pending), !.err = "SyntaxError"]
        ELSE [pending |-> withShadow \o children(current) \o Tail(st.pending),
              results |-> IF test /\ matches(current, selector)
                          THEN Append(st.results, current)
                          ELSE st.results,
              visited |-> st.visited \cup {x \in {sr} : x # NULL},
              err |-> ""]

\* One iteration of the while loop of querySelectorAllShadowOptimized on the
\* loop state st = [pending, results, visited, err].
optimizedIteration(selector, root, st) ==
    LET current == Head(st.pending)
        test == current # root /\ isElement(current)
        sr == shadowRoot(current)
        withShadow == IF sr # NULL THEN <<sr>> ELSE <<>>
    IN  IF test /\ ~validSelector(selector)
        THEN [st EXCEPT !.pending = Tail(st.pending), !.err = "SyntaxError"]
        ELSE [pending |-> Tail(st.pending) \o withShadow \o children(current),
              results |-> IF test /\ matches(current, selector)
                          THEN Append(st.results, current)
                          ELSE st.results,
              visited |-> st.visited \cup {x \in {sr} : x # NULL},
              err |-> ""]

RECURSIVE optimizedLoop(_, _, _)
optimizedLoop(selector, root, st) ==
    IF st.err # "" THEN Throw(st.err)
    ELSE IF st.pending = <<>> THEN Value(NULL, st.results, st.visited)
    ELSE optimizedLoop(selector, root, optimizedIteration(selector, root, st))

querySelectorAllShadowOptimized(selector, root) ==
    optimizedLoop(selector, root,
                  [pending |-> <<root>>, results |-> <<>>, visited |-> {},
                   err |-> ""])

RECURSIVE querySelectorShadow(_, _, _)
RECURSIVE querySelectorAllShadow(_, _, _)
RECURSIVE shadowLoop(_, _, _, _, _)
RECURSIVE shadowAllLoop(_, _, _, _, _, _)
RECURSIVE methodQuerySelector(_, _, _)

\* node.querySelector(selector) as the prototype chain resolves it once the
\* script is loaded.  Shadow roots are document fragments and keep the
\* native method; documents and elements get the override of the loaded
\* script.  depth counts the frames on the JavaScript call stack.
methodQuerySelector(node, selector, depth) ==
    IF isShadowRoot(node) THEN nativeQuerySelector(node, selector)
    ELSE IF mode = "gated"
    THEN IF needsShadowSearch(selector)
         THEN querySelectorShadow(cleanSelector(selector), node, depth + 1)
         ELSE nativeQuerySelector(node, selector)
    ELSE querySelectorShadow(selector, node, depth + 1)

\* node.querySelectorAll(selector), resolved the same way.
methodQuerySelectorAll(node, selector) ==
    IF isShadowRoot(node) THEN nativeQuerySelectorAll(node, selector)
    ELSE IF mode = "gated"
    THEN IF needsShadowSearch(selector)
         THEN querySelectorAllShadowOptimized(cleanSelector(selector), node)
         ELSE nativeQuerySelectorAll(node, selector)
    ELSE querySelectorAllShadowOptimized(selector, node)

\* The for loop of querySelectorShadow over allElements, from index i.
shadowLoop(selector, allElements, i, visited, depth) ==
    IF i > Len(allElements) THEN Value(NULL, <<>>, visited)
    ELSE LET sr == shadowRoot(allElements[i])
             element == querySelectorShadow(selector, sr, depth + 1)
         IN  IF sr = NULL
             THEN shadowLoop(selector, allElements, i + 1, visited, depth)
             ELSE IF element.err # "" THEN element
             ELSE IF element.node # NULL
             THEN Value(element.node, <<>>,
                        visited \cup {sr} \cup element.visited)
             ELSE shadowLoop(selector, allElements, i + 1,
                             visited \cup {sr} \cup element.visited, depth)

\* Mutant: the shadow roots searched before root's own light DOM.
querySelectorShadowShadowFirst(selector, root, depth) ==
    IF depth > StackLimit THEN Throw("RangeError")
    ELSE LET allElements == methodQuerySelectorAll(root, UNIVERSAL)
             inShadow == shadowLoop(selector, allElements.list, 1,
                                    allElements.visited, depth)
         IN  IF allElements.err # "" THEN allElements
             ELSE IF inShadow.err # "" \/ inShadow.node # NULL THEN inShadow
             ELSE methodQuerySelector(root, selector, depth)

querySelectorShadow(selector, root, depth) ==
    IF depth > StackLimit THEN Throw("RangeError")
    ELSE LET element == methodQuerySelector(root, selector, depth)
             allElements == methodQuerySelectorAll(root, UNIVERSAL)
         IN  IF element.err # "" THEN element
             ELSE IF element.node # NULL THEN element
             ELSE IF allElements.err # "" THEN allElements
             ELSE shadowLoop(selector, allElements.list, 1,
                             element.visited \cup allElements.visited, depth)

\* The for loop of querySelectorAllShadow over allElements, from index i.
shadowAllLoop(selector, allElements, i, acc, visited, depth) ==
    IF i > Len(allElements) THEN Value(NULL, acc, visited)
    ELSE LET sr == shadowRoot(allElements[i])
             sub == querySelectorAllShadow(selector, sr, depth + 1)
         IN  IF sr = NULL
             THEN shadowAllLoop(selector, allElements, i + 1, acc, visited,
                                depth)
             ELSE IF sub.err # "" THEN sub
             ELSE shadowAllLoop(selector, allElements, i + 1,
                                acc \o sub.list,
                                visited \cup {sr} \cup sub.visited, depth)

querySelectorAllShadow(selector, root, depth) ==
    IF depth > StackLimit THEN Throw("RangeError")
    ELSE LET first == methodQuerySelectorAll(root, selector)
             allElements == methodQuerySelectorAll(root, UNIVERSAL)
         IN  IF first.err # "" THEN first
             ELSE IF allElements.err # "" THEN allElements
             ELSE shadowAllLoop(selector, allElements.list, 1, first.list,
                                first.visited \cup allElements.visited, depth)

\* closestShadow: the while loop, entered with a non-null element.  When
\* parentElement is null the condition `!element && element.getRootNode()`
\* calls a method on null, which throws a TypeError.
RECURSIVE closestShadow(_, _)
closestShadow(element, selector) ==
    IF element = NULL THEN Value(NULL, <<>>, {})
    ELSE IF isElement(element) /\ ~validSelector(selector)
    THEN Throw("SyntaxError")
    ELSE IF isElement(element) /\ matches(element, selector)
    THEN Value(element, <<>>, {})
    ELSE IF parentElement(element) = NULL THEN Throw("TypeError")
    ELSE closestShadow(parentElement(element), selector)


\* ------------------------------------------------------------ the machine
NoCall == [op |-> "", selector |-> <<>>, node |-> NULL]
NoResult == Value(NULL, <<>>, {})
NoLoop == [pending |-> <<>>, results |-> <<>>, visited |-> {}, err |-> ""]

Elements == {n \in 1..NumNodes : isElement(n)}
Receivers == {DOCUMENT} \cup Elements

\* Selectors without a marker: what a caller hands the functions directly.
PlainSelectors == {s \in Selectors : ~needsShadowSearch(s)}

Loaded(m) ==
    /\ tree \in Trees
    /\ mode = m
    /\ pc = "idle"
    /\ call = NoCall
    /\ result = NoResult
    /\ loop = NoLoop
    /\ dequeued = <<>>

\* The page after querySelectorShadow.js (marker-gated override) is loaded.
Init == Loaded("gated")

\* The page after the implicit-override script is loaded.
InitImplicit == Loaded("implicit")

Returned(op, selector, node, r) ==
    /\ pc = "idle"
    /\ pc' = "done"
    /\ call' = [op |-> op, selector |-> selector, node |-> node]
    /\ result' = r
    /\ UNCHANGED <<tree, mode, loop, dequeued>>

\* querySelectorShadow(selector, root)
CallQuerySelectorShadow ==
    \E selector \in PlainSelectors, root \in Nodes :
        Returned("querySelectorShadow", selector, root,
                 querySelectorShadow(selector, root, 1))

\* querySelectorAllShadow(selector, root)
CallQuerySelectorAllShadow ==
    \E selector \in PlainSelectors, root \in Nodes :
        Returned("querySelectorAllShadow", selector, root,
                 querySelectorAllShadow(selector, root, 1))

\* closestShadow(element, selector)
CallClosestShadow ==
    \E selector \in PlainSelectors, element \in Elements :
        Returned("closestShadow", selector, element,
                 closestShadow(element, selector))

\* receiver.querySelector(selector), on a document or an element
CallQuerySelector ==
    \E selector \in Selectors, receiver \in Receivers :
        Returned("querySelector", selector, receiver,
                 methodQuerySelector(receiver, selector, 1))

\* receiver.querySelectorAll(selector), on a document or an element
CallQuerySelectorAll ==
    \E selector \in Selectors, receiver \in Receivers :
        Returned("querySelectorAll", selector, receiver,
                 methodQuerySelectorAll(receiver, selector))

\* querySelectorAllShadowOptimized(selector, root), one loop iteration at a
\* time: entry, the loop body, and the return after the loop.
EnterOptimized ==
    \E selector \in PlainSelectors, root \in Nodes :
        /\ pc = "idle"
        /\ pc' = "loop"
        /\ call' = [op |-> "querySelectorAllShadowOptimized",
                    selector |-> selector, node |-> root]
        /\ loop' = [NoLoop EXCEPT !.pending = <<root>>]
        /\ dequeued' = <<>>
        /\ UNCHANGED <<tree, mode, result>>

IterateOptimized ==
    /\ pc = "loop"
    /\ loop.pending # <<>>
    /\ LET st == optimizedIteration(call.selector, call.node, loop)
       IN  /\ loop' = st
           /\ dequeued' = Append(dequeued, Head(loop.pending))
           /\ IF st.err # ""
              THEN pc' = "done" /\ result' = Throw(st.err)
              ELSE pc' = "loop" /\ UNCHANGED result
    /\ UNCHANGED <<tree, mode, call>>

ReturnOptimized ==
    /\ pc = "loop"
    /\ loop.pending = <<>>
    /\ pc' = "done"
    /\ result' = Value(NULL, loop.results, loop.visited)
    /\ UNCHANGED <<tree, mode, call, loop, dequeued>>

\* The caller takes the result; the page is ready for the next call.
Idle ==
    /\ pc = "done"
    /\ pc' = "idle"
    /\ call' = NoCall
    /\ result' = NoResult
    /\ loop' = NoLoop
    /\ dequeued' = <<>>
    /\ UNCHANGED <<tree, mode>>

\* Direct calls of the functions of querySelectorShadow.js.
Next ==
    \/ CallQuerySelectorShadow
    \/ CallQuerySelectorAllShadow
    \/ CallClosestShadow
    \/ EnterOptimized
    \/ IterateOptimized
    \/ ReturnOptimized
    \/ Idle

Spec == Init /\ [][Next]_vars

\* Calls of the overridden DOM methods, marker-gated mode.
NextGated ==
    \/ CallQuerySelector
    \/ CallQuerySelectorAll
    \/ Idle

SpecGated == Init /\ [][NextGated]_vars

\* Calls of the overridden DOM methods and of the prototype methods the
\* implicit-override script adds.
NextImplicit ==
    \/ CallQuerySelector
    \/ CallQuerySelectorAll
    \/ CallQuerySelectorShadow
    \/ CallQuerySelectorAllShadow
    \/ Idle

SpecImplicit == InitImplicit /\ [][NextImplicit]_vars

\* ---------------------------------------------------------------- claims
Range(q) == {q[i] : i \in 1..Len(q)}
NoDuplicates(q) == \A i, j \in 1..Len(q) : q[i] = q[j] => i = j
Occurrences(q, x) == Cardinality({i \in 1..Len(q) : q[i] = x})

\* The elements of the composed tree below root that match the selector.
MatchingBelow(root, selector) ==
    {n \in composedDescendants(root) : isElement(n) /\ matches(n, selector)}

Finished(op) == pc = "done" /\ call.op = op

\* C1: whenever querySelectorShadow(selector, root) has returned for a valid
\* selector, it returned an element matching the selector if some element of
\* the composed tree below root (root's own shadow tree included) matches,
\* and null only if none does.
C1_FindFirstComplete ==
    (Finished("querySelectorShadow") /\ validSelector(call.selector)) =>
        /\ result.err = ""
        /\ IF MatchingBelow(call.node, call.selector) # {}
           THEN result.node \in MatchingBelow(call.node, call.selector)
           ELSE result.node = NULL

\* C2: whenever either all-matches function has returned for a valid
\* selector, its sequence holds exactly the matching elements of the composed
\* tree below root, each once.
C2_FindAllComplete ==
    ((Finished("querySelectorAllShadow")
        \/ Finished("querySelectorAllShadowOptimized"))
     /\ validSelector(call.selector)) =>
        /\ result.err = ""
        /\ Range(result.list) = MatchingBelow(call.node, call.selector)
        /\ NoDuplicates(result.list)

\* C3: the sequence returned by either all-matches function never holds
\* the root it was called with.
C3_SelfExclusion ==
    (Finished("querySelectorAllShadow")
        \/ Finished("querySelectorAllShadowOptimized")) =>
        call.node \notin Range(result.list)

\* C3 witness: the queue variant returned matches for a root that is an
\* element matching the selector itself.
C3_Witness ==
    /\ Finished("querySelectorAllShadowOptimized")
    /\ isElement(call.node)
    /\ validSelector(call.selector)
    /\ matches(call.node, call.selector)
    /\ result.list # <<>>

\* The upward chain the walk is meant to follow: the parent element, and
\* from the top of a shadow tree the host of its shadow root.
upward(n) ==
    IF parentElement(n) # NULL THEN parentElement(n)
    ELSE IF isShadowRoot(getRootNode(n)) THEN host(getRootNode(n))
    ELSE NULL

RECURSIVE nearestUpward(_, _)
nearestUpward(n, selector) ==
    IF n = NULL THEN NULL
    ELSE IF matches(n, selector) THEN n
    ELSE nearestUpward(upward(n), selector)

\* The part of the upward chain inside the start element's own tree.
RECURSIVE nearestInTree(_, _)
nearestInTree(n, selector) ==
    IF n = NULL THEN NULL
    ELSE IF matches(n, selector) THEN n
    ELSE nearestInTree(parentElement(n), selector)

\* C4: closestShadow called on an element inside a shadow tree, with a
\* selector matched by nothing on the way up inside that tree but by the
\* host or an ancestor of the host, returns the nearest such node.
C4_UpwardCrossing ==
    (/\ Finished("closestShadow")
     /\ validSelector(call.selector)
     /\ isShadowRoot(getRootNode(call.node))
     /\ nearestInTree(call.node, call.selector) = NULL
     /\ nearestUpward(call.node, call.selector) # NULL) =>
        /\ result.err = ""
        /\ result.node = nearestUpward(call.node, call.selector)

\* C5: closestShadow called with a selector that nothing on the upward chain
\* matches returns null and raises no error.
C5_NotFoundIsNull ==
    (/\ Finished("closestShadow")
     /\ validSelector(call.selector)
     /\ nearestUpward(call.node, call.selector) = NULL) =>
        /\ result.err = ""
        /\ result.node = NULL

\* What the marker-gated claim speaks of, stated on the selector string
\* alone.
hasMarker(selector) == \E i \in 1..Len(selector) : selector[i] \in MarkerTokens

\* The selector with its marker tokens removed, and nothing else.
withoutMarkers(selector) == SelectSeq(selector, LAMBDA t : t \notin MarkerTokens)

\* Token i is white space that follows a marker, with only markers and white
\* space in between.
afterMarker(selector, i) ==
    /\ selector[i] = " "
    /\ \E j \in 1..(i - 1) :
        /\ selector[j] \in MarkerTokens
        /\ \A k \in (j + 1)..(i - 1) : selector[k] \in MarkerTokens \cup {" "}

RECURSIVE keepFrom(_, _)
keepFrom(selector, i) ==
    IF i > Len(selector) THEN <<>>
    ELSE IF selector[i] \in MarkerTokens \/ afterMarker(selector, i)
    THEN keepFrom(selector, i + 1)
    ELSE <<selector[i]>> \o keepFrom(selector, i + 1)

\* The selector with every marker token and the white space after it
\* removed, and no white space left at either end.
withoutMarkersAndSpace(selector) ==
    LET kept == keepFrom(selector, 1)
        firstInk == {i \in 1..Len(kept) : kept[i] # " "}
    IN  IF firstInk = {} THEN <<>>
        ELSE SubSeq(kept,
                    CHOOSE i \in firstInk : \A j \in firstInk : i <= j,
                    CHOOSE i \in firstInk : \A j \in firstInk : i >= j)

\* The dispatch the claim describes, for a given notion of stripping.
gatedDispatch(stripped) ==
    IF hasMarker(call.selector)
    THEN IF call.op = "querySelector"
         THEN result = querySelectorShadow(stripped, call.node, 1)
         ELSE result = querySelectorAllShadowOptimized(stripped, call.node)
    ELSE /\ result.visited = {}
         /\ IF call.op = "querySelector"
            THEN result = nativeQuerySelector(call.node, call.selector)
            ELSE result = nativeQuerySelectorAll(call.node, call.selector)

\* C6 as stated: a call of an overridden method with a selector holding a
\* marker returns what the shadow-aware function returns for the selector
\* with the marker tokens removed; without a marker it returns what the
\* native method returns and visits no shadow root.
C6_MarkerTokensRemoved ==
    (Finished("querySelector") \/ Finished("querySelectorAll")) =>
        gatedDispatch(withoutMarkers(call.selector))

\* C6 amended: the same, the stripped selector being the selector with every
\* marker token and the white space following it removed, then trimmed.
C6_MarkerGatedDispatch ==
    (Finished("querySelector") \/ Finished("querySelectorAll")) =>
        gatedDispatch(withoutMarkersAndSpace(call.selector))

\* C6 witness: querySelector with a marker found an element inside a shadow
\* tree.
C6_Witness ==
    /\ Finished("querySelector")
    /\ hasMarker(call.selector)
    /\ result.node # NULL
    /\ result.visited # {}
    /\ isShadowRoot(getRootNode(result.node))

\* C7: a call of an overridden querySelector or querySelectorAll returns (a
\* node, null or a sequence); it does not exhaust the call stack.
C7_EveryQueryReturns ==
    (Finished("querySelector") \/ Finished("querySelectorAll")) =>
        result.err # "RangeError"

\* C8: with the implicit override loaded, querySelectorAllShadow called on
\* the document or an element of a tree in which some shadow tree holds a
\* match returns every matching element exactly once.
C8_NoDuplicatesImplicit ==
    (/\ Finished("querySelectorAllShadow")
     /\ call.node \in Receivers
     /\ validSelector(call.selector)
     /\ \E m \in MatchingBelow(call.node, call.selector) :
            isShadowRoot(getRootNode(m))) =>
        /\ result.err = ""
        /\ \A m \in MatchingBelow(call.node, call.selector) :
            Occurrences(result.list, m) = 1

\* C9: querySelectorShadow returns the first element of what
\* querySelectorAllShadow returns for the same selector and root, and null
\* when that sequence is empty; when root has light-DOM matches it is the
\* first of them in document order.
C9_FirstAgreesWithAll ==
    Finished("querySelectorShadow") =>
        LET all == querySelectorAllShadow(call.selector, call.node, 1)
            light == nativeQuerySelectorAll(call.node, call.selector)
        IN  /\ result.err = all.err
            /\ result.node = IF all.list = <<>> THEN NULL ELSE Head(all.list)
            /\ (light.list # <<>> =>
                    /\ result.node \in Range(light.list)
                    /\ \A d \in Range(light.list) : result.node <= d)

\* C9 witness: no light-DOM match, querySelectorShadow returned an element of
\* a shadow tree and querySelectorAllShadow has several results.
C9_Witness ==
    /\ Finished("querySelectorShadow")
    /\ nativeQuerySelector(call.node, call.selector).node = NULL
    /\ result.node # NULL
    /\ result.visited # {}
    /\ Len(querySelectorAllShadow(call.selector, call.node, 1).list) >= 2

Position(q, x) == CHOOSE i \in 1..Len(q) : q[i] = x

\* C10: in the queue variant the results are in level order (composed depth
\* never decreases along the sequence, a shadow root counting one level
\* below its host), a shadow root leaves the queue before its host's
\* children, no node is enqueued twice, and at the return every node of the
\* composed tree from root down has been dequeued exactly once and the
\* frontier is empty.
C10_LevelOrder ==
    call.op = "querySelectorAllShadowOptimized" =>
        /\ \A i, j \in 1..Len(loop.results) :
            i < j => composedDepth(loop.results[i]) <= composedDepth(loop.results[j])
        /\ NoDuplicates(dequeued \o loop.pending)
        /\ \A s \in Range(dequeued) : \A c \in Range(dequeued) :
            (isShadowRoot(s) /\ isElement(c) /\ parentNode(c) = host(s))
                => Position(dequeued, s) < Position(dequeued, c)
        /\ ((pc = "done" /\ result.err = "") =>
                /\ loop.pending = <<>>
                /\ Range(dequeued) = {call.node} \cup composedDescendants(call.node)
                /\ result.list = loop.results)

\* C10 witness: the loop returned results of different depths, the deeper
\* one inside a shadow tree.
C10_Witness ==
    /\ Finished("querySelectorAllShadowOptimized")
    /\ loop.pending = <<>>
    /\ \E i, j \in 1..Len(result.list) :
        /\ composedDepth(result.list[i]) < composedDepth(result.list[j])
        /\ isShadowRoot(getRootNode(result.list[j]))
====
